---- MODULE Spec2Model ----
(***************************************************************************)
(* Model of the request handlers of src/main.py: GET /transcript/{video_id} *)
(* (get_transcript) and GET /list/{video_id} (list_transcripts).            *)
(*                                                                          *)
(* One behaviour is the handling of one request.  The provider             *)
(* (YouTubeTranscriptApi) and the formatters are external: every call to    *)
(* them either returns or raises, and that choice is nondeterministic.      *)
(* A string is a sequence of tokens; a token is a language code, a comma    *)
(* or a blank.                                                              *)
(***************************************************************************)
EXTENDS Integers, Sequences, FiniteSets, TLC

VARIABLES endpoint, video, languages, format, preserve_formatting,
          translate_to, pc, e1, fetched_transcript, calls, response

vars == <<endpoint, video, languages, format, preserve_formatting,
          translate_to, pc, e1, fetched_transcript, calls, response>>

\* ------------------------------------------------------------- bounds
MaxLangLen == 3
MaxTranscripts == 2

\* ------------------------------------------------------------- values
None == "None"

LangTokens == {"en", "de", ",", " "}

Min(S) == CHOOSE x \in S : \A y \in S : x <= y

StringsUpTo(n) == UNION {[1..k -> LangTokens] : k \in 0..n}

\* the languages query parameter: absent (None) or a string
LanguageInputs ==
  {[present |-> FALSE, text |-> <<>>]}
    \cup {[present |-> TRUE, text |-> s] : s \in StringsUpTo(MaxLangLen)}

FormatInputs == {"json", "text", "srt", "webvtt", "SRT"}

TranslateInputs == {None, "fr"}

\* transcripts a video can offer, as the provider describes them
Descriptors ==
  { [language_code |-> "en", language |-> "English", is_generated |-> FALSE,
     is_translatable |-> TRUE, translation_languages |-> <<"fr">>],
    [language_code |-> "en", language |-> "English (auto-generated)",
     is_generated |-> TRUE, is_translatable |-> FALSE,
     translation_languages |-> <<>>],
    [language_code |-> "de", language |-> "German", is_generated |-> FALSE,
     is_translatable |-> FALSE, translation_languages |-> <<"fr">>] }

\* the provider's availability lists: distinct descriptors, in provider order
Videos ==
  UNION { {v \in [1..k -> Descriptors] :
             \A i, j \in 1..k : i # j => v[i] # v[j]} : k \in 0..MaxTranscripts }

\* ----------------------------------------------------- provider failures
\* A failure is the class of the exception and the phrases its message
\* contains among those the handler looks for.
Markers == {"no element found", "video unavailable", "transcript disabled"}

Failure(cls, markers) == [cls |-> cls, markers |-> markers]

NoFailure == Failure("none", {})

ListFailures ==
  { Failure("TranscriptsDisabled", {}),
    Failure("TranscriptsDisabled", {"transcript disabled"}),
    Failure("VideoNotFound", {}),
    Failure("VideoNotFound", {"video unavailable"}),
    Failure("RequestBlocked", {}),
    Failure("UnknownProviderError", {}) }

FetchFailures ==
  { Failure("UpstreamResponseInvalid", {"no element found"}),
    Failure("RequestBlocked", {}),
    Failure("UnknownProviderError", {}) }

NoTranscriptFailures ==
  { Failure("NoTranscriptFound", {}),
    Failure("NoTranscriptFound", {"no element found"}) }

TranslationFailures == { Failure("TranslationUnavailable", {}) }

FormatterFailures == { Failure("FormatterError", {}) }

\* --------------------------------------------------- language parsing
RECURSIVE SplitFrom(_, _, _)
SplitFrom(s, i, cur) ==
  IF i > Len(s) THEN <<cur>>
  ELSE IF s[i] = "," THEN <<cur>> \o SplitFrom(s, i + 1, <<>>)
  ELSE SplitFrom(s, i + 1, Append(cur, s[i]))

\* str.split(',')
Split(s) == SplitFrom(s, 1, <<>>)

RECURSIVE LStrip(_)
LStrip(s) == IF s # <<>> /\ Head(s) = " " THEN LStrip(Tail(s)) ELSE s

RECURSIVE RStrip(_)
RStrip(s) ==
  IF s # <<>> /\ s[Len(s)] = " " THEN RStrip(SubSeq(s, 1, Len(s) - 1)) ELSE s

\* str.strip()
Strip(s) == RStrip(LStrip(s))

\* lines 44-45
ParseLanguages(l) ==
  LET lang_list == IF l.present /\ l.text # <<>> THEN Split(l.text)
                   ELSE << <<"en">> >>
  IN  [i \in 1..Len(lang_list) |-> Strip(lang_list[i])]

DirectLanguages_default(lang_list) == << <<"en">> >>

\* line 52: the languages argument of the direct call
DirectLanguages(lang_list) ==
  IF Len(lang_list) > 1 THEN lang_list ELSE <<lang_list[1]>>

\* python truthiness of an optional string
Truthy(s) == s # None /\ s # ""

\* str.lower()
Lower(s) == IF s = "SRT" THEN "srt" ELSE s

\* ------------------------------------------------- provider operations
Matches(avail, entry) ==
  {k \in 1..Len(avail) : <<avail[k].language_code>> = entry}

\* find_transcript: the first requested language that is available wins;
\* 0 when none is (NoTranscriptFound)
FindTranscript(avail, lang_list) ==
  LET I == {i \in 1..Len(lang_list) : Matches(avail, lang_list[i]) # {}}
  IN  IF I = {} THEN 0
      ELSE LET M == Matches(avail, lang_list[Min(I)])
               Manual == {k \in M : ~avail[k].is_generated}
           IN  IF Manual # {} THEN Min(Manual) ELSE Min(M)

InSeq(x, s) == \E i \in 1..Len(s) : s[i] = x

\* translate(to) is possible
CanTranslate(t, to) == t.is_translatable /\ InSeq(to, t.translation_languages)

\* the provider's default for preserve_formatting when it is not passed
DefaultPreserveFormatting == FALSE

NoTranscript ==
  [language_code |-> None, translated_to |-> None, is_list |-> FALSE,
   preserve_formatting |-> FALSE]

Fetched(t, to, is_list, pf) ==
  [language_code |-> t.language_code, translated_to |-> to,
   is_list |-> is_list, preserve_formatting |-> pf]

Call(op, f) == [op |-> op, err |-> f.cls,
                preserve_formatting |-> DefaultPreserveFormatting]

Outcome(log, err, result) == [log |-> log, err |-> err, result |-> result]

\* list_transcripts, find_transcript, [translate,] fetch: every way the
\* sequence can end, with the provider calls made on the way
ListThenFetch(avail, lang_list, to) ==
  LET k == FindTranscript(avail, lang_list)
      listed == <<Call("list_transcripts", NoFailure)>>
      found == Append(listed, Call("find_transcript", NoFailure))
      ready == IF to = None THEN found
               ELSE Append(found, Call("translate", NoFailure))
  IN  { Outcome(<<Call("list_transcripts", f)>>, f, NoTranscript) :
          f \in ListFailures }
      \cup
      ( IF k = 0
        THEN { Outcome(Append(listed, Call("find_transcript", f)), f,
                       NoTranscript) : f \in NoTranscriptFailures }
        ELSE IF to # None /\ ~CanTranslate(avail[k], to)
        THEN { Outcome(Append(found, Call("translate", f)), f, NoTranscript) :
                 f \in TranslationFailures }
        ELSE { Outcome(Append(ready, Call("fetch", f)), f, NoTranscript) :
                 f \in FetchFailures }
             \cup
             { Outcome(Append(ready, Call("fetch", NoFailure)), NoFailure,
                       Fetched(avail[k], to, is_list,
                               DefaultPreserveFormatting)) :
                 is_list \in BOOLEAN } )

\* ------------------------------------------------------------ responses
NoResponse == [kind |-> "none", status |-> 0, detail |-> None, body |-> None]

Success(body) ==
  [kind |-> "ok", status |-> 200, detail |-> None, body |-> body]

HTTPException(status_code, detail) ==
  [kind |-> "http_error", status |-> status_code, detail |-> detail,
   body |-> None]

MapError_uncaught(markers) ==
  [kind |-> "unhandled", status |-> 500, detail |-> None, body |-> None]

\* lines 94-113: the outer handler of get_transcript, on str(e)
MapError(markers) ==
  IF "no element found" \in markers
  THEN HTTPException(404, "No transcript found")
  ELSE IF "video unavailable" \in markers
  THEN HTTPException(404, "Video not found or unavailable")
  ELSE IF "transcript disabled" \in markers
  THEN HTTPException(403, "Transcripts are disabled for this video")
  ELSE HTTPException(400, "Error: message")

\* line 65: the message names both original errors
BothFailed(f1, f2) == f1.markers \cup f2.markers

\* ---------------------------------------------------------------- Init
Init ==
  /\ video \in Videos
  /\ \/ /\ endpoint = "transcript"
        /\ languages \in LanguageInputs
        /\ format \in FormatInputs
        /\ preserve_formatting \in BOOLEAN
        /\ translate_to \in TranslateInputs
        /\ pc = "direct"
     \/ /\ endpoint = "list"
        /\ languages = [present |-> FALSE, text |-> <<>>]
        /\ format = "json"
        /\ preserve_formatting = FALSE
        /\ translate_to = None
        /\ pc = "list"
  /\ e1 = NoFailure
  /\ fetched_transcript = NoTranscript
  /\ calls = <<>>
  /\ response = NoResponse

request == <<endpoint, video, languages, format, preserve_formatting,
             translate_to>>

\* ------------------------------------------------------------- actions
\* lines 48-55: approach 1, the direct get_transcript call
Direct ==
  /\ pc = "direct"
  /\ LET args == DirectLanguages(ParseLanguages(languages))
         k == FindTranscript(video, args)
     IN  \/ \E f \in ListFailures \cup FetchFailures
                       \cup (IF k = 0 THEN NoTranscriptFailures ELSE {}) :
              /\ e1' = f
              /\ calls' = Append(calls, Call("get_transcript", f))
              /\ pc' = "fallback"
              /\ UNCHANGED fetched_transcript
         \/ /\ k # 0
            /\ \E is_list \in BOOLEAN :
                 fetched_transcript' =
                   Fetched(video[k], None, is_list, DefaultPreserveFormatting)
            /\ calls' = Append(calls, Call("get_transcript", NoFailure))
            /\ pc' = "translate"
            /\ UNCHANGED e1
  /\ UNCHANGED <<request, response>>

\* lines 56-65: approach 2, list then fetch; when it fails too, the
\* exception of line 65 reaches the outer handler
Fallback ==
  /\ pc = "fallback"
  /\ \E o \in ListThenFetch(video, ParseLanguages(languages),
                            IF Truthy(translate_to) THEN translate_to
                            ELSE None) :
       /\ calls' = calls \o o.log
       /\ IF o.err = NoFailure
          THEN /\ fetched_transcript' = o.result
               /\ pc' = "translate"
               /\ UNCHANGED response
          ELSE /\ response' = MapError(BothFailed(e1, o.err))
               /\ pc' = "done"
               /\ UNCHANGED fetched_transcript
  /\ UNCHANGED <<request, e1>>

\* lines 69-73: translation after the fact
Translate ==
  /\ pc = "translate"
  /\ IF Truthy(translate_to) /\ ~fetched_transcript.is_list
     THEN \E o \in ListThenFetch(video, ParseLanguages(languages),
                                 translate_to) :
            /\ calls' = calls \o o.log
            /\ IF o.err = NoFailure
               THEN /\ fetched_transcript' = o.result
                    /\ pc' = "format"
                    /\ UNCHANGED response
               ELSE /\ response' = MapError(o.err.markers)
                    /\ pc' = "done"
                    /\ UNCHANGED fetched_transcript
     ELSE /\ pc' = "format"
          /\ UNCHANGED <<calls, fetched_transcript, response>>
  /\ UNCHANGED <<request, e1>>

\* lines 76-92: format dispatch and the success response
FormatOutput ==
  /\ pc = "format"
  /\ IF Lower(format) \in {"text", "srt", "webvtt"}
     THEN \/ /\ calls' = Append(calls, Call("format_transcript", NoFailure))
             /\ response' = Success([format |-> Lower(format),
                                     transcript |-> fetched_transcript])
          \/ \E f \in FormatterFailures :
               /\ calls' = Append(calls, Call("format_transcript", f))
               /\ response' = MapError(f.markers)
     ELSE /\ response' = Success([format |-> None,
                                  transcript |-> fetched_transcript])
          /\ UNCHANGED calls
  /\ pc' = "done"
  /\ UNCHANGED <<request, e1, fetched_transcript>>

Describe_unguarded(t) ==
  [language |-> t.language, language_code |-> t.language_code,
   is_generated |-> t.is_generated, is_translatable |-> t.is_translatable,
   translation_languages |-> t.translation_languages]

\* lines 127-136: one descriptor of the /list response
Describe(t) ==
  [language |-> t.language, language_code |-> t.language_code,
   is_generated |-> t.is_generated, is_translatable |-> t.is_translatable,
   translation_languages |->
     IF t.is_translatable THEN t.translation_languages ELSE <<>>]

\* lines 115-144: GET /list/{video_id}
ListTranscripts ==
  /\ pc = "list"
  /\ \/ \E f \in ListFailures :
          /\ calls' = Append(calls, Call("list_transcripts", f))
          /\ response' = HTTPException(400, "message")
     \/ /\ calls' = Append(calls, Call("list_transcripts", NoFailure))
        /\ response' = Success([available_transcripts |->
                                  [i \in 1..Len(video) |-> Describe(video[i])]])
  /\ pc' = "done"
  /\ UNCHANGED <<request, e1, fetched_transcript>>

Next == Direct \/ Fallback \/ Translate \/ FormatOutput \/ ListTranscripts

Spec == Init /\ [][Next]_vars

\* ------------------------------------------------------------ properties
TableStatuses == {400, 403, 404, 502, 503}

\* the provider calls that fetch captions: the direct call and fetch()
FetchOps == {"get_transcript", "fetch"}

Attempts(ops) == Cardinality({i \in 1..Len(calls) : calls[i].op \in ops})

Failed == {i \in 1..Len(calls) : calls[i].err # "none"}

Done(ep) == pc = "done" /\ endpoint = ep

\* the transcript the canonical policy selects (0: none)
Selected == FindTranscript(video, ParseLanguages(languages))

\* section 7 of the specification
TableStatus(cls) ==
  CASE cls = "NoTranscriptFound" -> 404
    [] cls = "TranscriptsDisabled" -> 403
    [] cls = "VideoNotFound" -> 404
    [] cls = "RequestBlocked" -> 503
    [] cls = "UpstreamResponseInvalid" -> 502
    [] OTHER -> 400

\* C1: no failure leaves a handler unhandled: while a request is being
\* handled nothing has been answered, and a request whose handling was ended
\* by a raised exception is answered by an HTTP error with a status of the
\* section 7 table and a detail string.
C1_FailuresBecomeHttpErrors ==
  /\ response.kind \in {"none", "ok", "http_error"}
  /\ (pc # "done") <=> (response = NoResponse)
  /\ response.kind = "http_error" =>
       response.status \in TableStatuses /\ response.detail # None
  /\ (pc = "done" /\ calls # <<>> /\ calls[Len(calls)].err # "none") =>
       response.kind = "http_error"

C1_Witness ==
  /\ Done("transcript")
  /\ e1 # NoFailure
  /\ Cardinality(Failed) = 2
  /\ response.kind = "http_error"

\* C2: one /transcript request attempts the caption fetch at most twice.
C2_AtMostTwoFetches == Attempts(FetchOps) <= 2

\* C3: a successful /transcript request with translate_to returns the
\* transcript fetched from the translated variant, the translation having
\* been requested exactly once.
C3_TranslatedExactlyOnce ==
  (Done("transcript") /\ Truthy(translate_to) /\ response.kind = "ok") =>
    /\ response.body.transcript.translated_to = translate_to
    /\ Attempts({"translate"}) = 1

\* C4: with translate_to set and a selected transcript that is not
\* translatable, the request fails with status 400 and no caption fetch has
\* been issued (requests on which the provider fails otherwise set aside).
C4_NotTranslatableFailsBeforeFetch ==
  ( /\ Done("transcript")
    /\ Truthy(translate_to)
    /\ Selected # 0
    /\ ~video[Selected].is_translatable
    /\ \A i \in Failed : calls[i].err = "TranslationUnavailable" ) =>
    /\ response.kind = "http_error"
    /\ response.status = 400
    /\ Attempts(FetchOps) = 0

\* C5: the transcript of a successful /transcript response is in the first
\* language of the normalized languages list that the video offers.
C5_FirstAvailableLanguageWins ==
  (Done("transcript") /\ response.kind = "ok") =>
    LET L == ParseLanguages(languages)
        code == response.body.transcript.language_code
        Offered(entry) ==
          \E k \in 1..Len(video) : <<video[k].language_code>> = entry
    IN  \E i \in 1..Len(L) :
          /\ L[i] = <<code>>
          /\ Offered(L[i])
          /\ \A j \in 1..(i - 1) : ~Offered(L[j])

C5_Witness ==
  /\ Done("transcript")
  /\ response.kind = "ok"
  /\ e1 # NoFailure
  /\ languages.text = <<"de", ",", "en">>
  /\ Len(video) = 2
  /\ video[1].language_code = "en"
  /\ video[2].language_code = "de"
  /\ response.body.transcript.language_code = "de"

\* C6: after a first fetch that failed with a class other than the
\* transient malformed response, no further provider call is made.
C6_NoRetryOnOtherFailures ==
  (e1 # NoFailure /\ e1.cls # "UpstreamResponseInvalid") => Len(calls) <= 1

\* C7: when the video offers no transcript in any requested language, the
\* /transcript request is answered 404, whatever the format (requests on
\* which the provider fails otherwise set aside).
C7_NoTranscriptIs404 ==
  ( /\ Done("transcript")
    /\ Selected = 0
    /\ \A i \in Failed : calls[i].err = "NoTranscriptFound" ) =>
    /\ response.kind = "http_error"
    /\ response.status = 404

\* C8: a failed /transcript request carries the status the section 7 table
\* assigns to the class of the provider failure that ended it.
C8_StatusFollowsFailureClass ==
  ( /\ Done("transcript")
    /\ Failed # {}
    /\ calls[Len(calls)].err # "none"
    /\ \A i \in Failed : calls[i].err = calls[Len(calls)].err ) =>
    /\ response.kind = "http_error"
    /\ response.status = TableStatus(calls[Len(calls)].err)

\* C9: every caption fetch carries the preserve_formatting of the request.
C9_FetchHonorsPreserveFormatting ==
  \A i \in 1..Len(calls) :
    calls[i].op \in FetchOps =>
      calls[i].preserve_formatting = preserve_formatting

\* C10: a successful /list response describes every transcript of the
\* provider's list, in its order, and a descriptor's translation_languages
\* is empty when is_translatable is false and the provider's targets
\* otherwise.
C10_ListIsComplete ==
  (Done("list") /\ response.kind = "ok") =>
    LET out == response.body.available_transcripts
    IN  /\ Len(out) = Len(video)
        /\ \A i \in 1..Len(video) :
             /\ out[i].language_code = video[i].language_code
             /\ out[i].language = video[i].language
             /\ out[i].is_generated = video[i].is_generated
             /\ out[i].is_translatable = video[i].is_translatable
             /\ ~out[i].is_translatable => out[i].translation_languages = <<>>
             /\ out[i].is_translatable =>
                  /\ out[i].translation_languages =
                       video[i].translation_languages
                  /\ out[i].translation_languages # <<>>

C10_Witness ==
  /\ Done("list")
  /\ response.kind = "ok"
  /\ Len(video) = 2
  /\ video[1].is_translatable
  /\ ~video[2].is_translatable
  /\ video[2].translation_languages # <<>>

====
